---- MODULE Spec2Model ----
(***************************************************************************)
(* generate_doc.py: a fixed list of .go files is copied into one Word      *)
(* document (title, then per existing file: page break, level-1 heading,   *)
(* code paragraph) and the document is saved once at the end.              *)
(*                                                                         *)
(* The model follows generate_document statement by statement.  A file on  *)
(* disk is a sequence of bytes (or is missing, or cannot be opened); the   *)
(* document body is the sequence of paragraphs python-docx holds in        *)
(* memory; the console is the sequence of printed lines.  The process can  *)
(* be invoked again on the same disk, which now holds the output file of   *)
(* the previous invocation.                                                *)
(***************************************************************************)
EXTENDS Integers, Sequences, FiniteSets

\* ------------------------------------------------------------------ bounds
\* Number of invocations of the script that are explored.
MaxRuns == 2

\* ------------------------------------------------------ program constants
GO_FILES == <<"blueprint.go", "neuron.go", "eval.go", "utils.go">>

OUTPUT_DOC == "Go_Code_Documentation.docx"

TITLE == "Go Code Documentation"

\* ---------------------------------------------------------- the file system
\* A byte of an input file is an ordinary character ("p", "q"), a line feed
\* "LF", a carriage return "CR", or a byte "BAD" that is not valid UTF-8.
Missing == [state |-> "missing", bytes |-> <<>>]

\* A file that open() refuses (PermissionError).
Unreadable == [state |-> "unreadable", bytes |-> <<>>]

Present(bytes) == [state |-> "file", bytes |-> bytes]

\* Contents an input file may have on disk.
Contents ==
    { <<>>,
      <<"p", "LF", "q">>,
      <<"p", "CR", "LF", "q">>,
      <<"p", "CR">>,
      <<"p", "BAD">> }

FileStates == {Missing, Unreadable} \cup {Present(b) : b \in Contents}

Files == {GO_FILES[k] : k \in 1..Len(GO_FILES)}

NoOutput == [exists |-> FALSE, body |-> <<>>, styles |-> <<>>]

\* os.path.isfile(go_file)
isfileAlways(d, f) == TRUE

isfile(d, f) == d[f].state # "missing"

\* open(go_file, 'r', encoding='utf-8') succeeds
CanOpen(d, f) == d[f].state = "file"

\* The utf-8 decoder accepts the bytes.
Decodable(bytes) == \A k \in 1..Len(bytes) : bytes[k] # "BAD"

\* f.readline(): the text up to and including the first line ending.
RECURSIVE FirstLine(_)
FirstLine(bytes) ==
    IF bytes = <<>> THEN <<>>
    ELSE IF Head(bytes) \in {"CR", "LF"} THEN <<"LF">>
    ELSE <<Head(bytes)>> \o FirstLine(Tail(bytes))

\* f.read() of a file opened in text mode with the default newline=None:
\* universal newlines, "\r\n" and a lone "\r" are both returned as "\n".
RECURSIVE ReadText(_)
ReadText(bytes) ==
    IF bytes = <<>> THEN <<>>
    ELSE IF Head(bytes) = "CR"
         THEN IF Len(bytes) >= 2 /\ bytes[2] = "LF"
              THEN <<"LF">> \o ReadText(SubSeq(bytes, 3, Len(bytes)))
              ELSE <<"LF">> \o ReadText(Tail(bytes))
         ELSE <<Head(bytes)>> \o ReadText(Tail(bytes))

\* ------------------------------------------------------------ the document
\* Paragraphs of the document body.  Every element python-docx appends here
\* (a heading, a page break, a code block) is a paragraph of the body.
DeeperHeading(text, level) ==
    [kind |-> "heading", level |-> level + 1, text |-> text, code |-> <<>>,
     style |-> "Heading 1", shd |-> ""]

\* document.add_heading(text, level)
HeadingPar(text, level) ==
    [kind |-> "heading", level |-> level, text |-> text, code |-> <<>>,
     style |-> IF level = 0 THEN "Title" ELSE "Heading 1", shd |-> ""]

PageBreakPar ==
    [kind |-> "pagebreak", level |-> -1, text |-> "", code |-> <<>>,
     style |-> "Normal", shd |-> ""]

CodePar(code) ==
    [kind |-> "code", level |-> -1, text |-> "", code |-> code,
     style |-> "Code", shd |-> "D3D3D3"]

\* Styles of the default template that the script uses; it has no 'Code'.
DefaultStyles == <<"Normal", "Title", "Heading 1">>

\* Document() with no argument: the blank default template, whatever file
\* already sits at the output path.
NewDocumentFromOutput(out) == IF out.exists THEN out.body ELSE <<>>

NewDocument(out) == <<>>

\* document.paragraphs
paragraphs(d) == d

\* The test of line 62, "if document.paragraphs:".
NeedsPageBreak(d) == paragraphs(d) # <<>>

\* 'Code' not in styles
AlwaysMissing(s, name) == TRUE

StyleMissing(s, name) == \A k \in 1..Len(s) : s[k] # name

\* styles after lines 23-31 of add_code_paragraph
StylesAfter(s) ==
    IF StyleMissing(s, "Code") THEN Append(s, "Code") ELSE s

\* add_code_paragraph(document, code): the body after the call
add_code_paragraph(d, code) == Append(d, CodePar(code))

\* Console lines.
Warning(f) == [kind |-> "warning", file |-> f]

Confirmation == [kind |-> "saved", file |-> OUTPUT_DOC]

\* ------------------------------------------------------------------- state
VARIABLES
    disk,        \* input files: name -> Missing, Unreadable or Present(bytes)
    outWritable, \* whether the output path can be written
    output,      \* the output file on disk
    pc,          \* position of the running invocation
    i,           \* index into GO_FILES of the entry of the for loop
    doc,         \* body of the in-memory document
    styles,      \* styles of the in-memory document
    code,        \* the local variable code
    openFiles,   \* input files currently open
    raised,      \* an exception is propagating out of the with block
    console,     \* lines printed by this invocation
    saves,       \* writes of the output file by this invocation
    visited,     \* indices the for loop has bound go_file to, in order
    run,         \* number of the invocation
    prev         \* how the previous invocation ended

vars == <<disk, outWritable, output, pc, i, doc, styles, code, openFiles,
          raised, console, saves, visited, run, prev>>

env == <<disk, outWritable>>

NoPrev == [pc |-> "none", doc |-> <<>>, console |-> <<>>, output |-> NoOutput]

go_file == GO_FILES[i]

\* The entry the for loop takes after entry k (0: before the first).
SkipEntry(k) == k + 2

NextEntry(k) == k + 1

Init ==
    /\ disk \in [Files -> FileStates]
    /\ outWritable \in BOOLEAN
    /\ output = NoOutput
    /\ pc = "Start"
    /\ i = 0
    /\ doc = <<>>
    /\ styles = <<>>
    /\ code = <<>>
    /\ openFiles = {}
    /\ raised = FALSE
    /\ console = <<>>
    /\ saves = 0
    /\ visited = <<>>
    /\ run = 1
    /\ prev = NoPrev

\* Line 55: the for loop binds go_file to the entry after k, or ends when
\* the list is exhausted.
Advance(k) ==
    /\ i' = NextEntry(k)
    /\ IF NextEntry(k) > Len(GO_FILES)
       THEN pc' = "Save" /\ visited' = visited
       ELSE pc' = "Check" /\ visited' = Append(visited, NextEntry(k))

\* Lines 50-53: the new document and its title.
Start ==
    /\ pc = "Start"
    /\ doc' = Append(NewDocument(output), HeadingPar(TITLE, 0))
    /\ styles' = DefaultStyles
    /\ Advance(0)
    /\ UNCHANGED <<env, output, code, openFiles, raised, console, saves, run, prev>>

\* Lines 57-59: a missing file is reported and skipped.
SkipWithPlaceholder ==
    /\ pc = "Check"
    /\ ~isfile(disk, go_file)
    /\ console' = Append(console, Warning(go_file))
    /\ doc' = Append(doc, HeadingPar("(missing)", 1))
    /\ Advance(i)
    /\ UNCHANGED <<env, output, styles, code, openFiles, raised, saves, run, prev>>

Skip ==
    /\ pc = "Check"
    /\ ~isfile(disk, go_file)
    /\ console' = Append(console, Warning(go_file))
    /\ Advance(i)
    /\ UNCHANGED <<env, output, doc, styles, code, openFiles, raised, saves, run, prev>>

\* Line 57, file present.
Check ==
    /\ pc = "Check"
    /\ isfile(disk, go_file)
    /\ pc' = "Separate"
    /\ UNCHANGED <<env, output, i, doc, styles, code, openFiles, raised, console,
                   saves, visited, run, prev>>

\* Lines 62-63.
Separate ==
    /\ pc = "Separate"
    /\ doc' = IF NeedsPageBreak(doc) THEN Append(doc, PageBreakPar) ELSE doc
    /\ pc' = "Heading"
    /\ UNCHANGED <<env, output, i, styles, code, openFiles, raised, console,
                   saves, visited, run, prev>>

\* Line 66.
Heading ==
    /\ pc = "Heading"
    /\ doc' = Append(doc, HeadingPar(go_file, 1))
    /\ pc' = "Open"
    /\ UNCHANGED <<env, output, i, styles, code, openFiles, raised, console,
                   saves, visited, run, prev>>

\* Line 69: open succeeds and the with block is entered.
Open ==
    /\ pc = "Open"
    /\ CanOpen(disk, go_file)
    /\ openFiles' = openFiles \cup {go_file}
    /\ pc' = "Read"
    /\ UNCHANGED <<env, output, i, doc, styles, code, raised, console,
                   saves, visited, run, prev>>

\* Line 69: open raises (PermissionError); nothing was opened.
OpenFail ==
    /\ pc = "Open"
    /\ ~CanOpen(disk, go_file)
    /\ pc' = "Aborted"
    /\ UNCHANGED <<env, output, i, doc, styles, code, openFiles, raised, console,
                   saves, visited, run, prev>>

\* Line 70: f.read() returns the text, or raises UnicodeDecodeError.
Read ==
    /\ pc = "Read"
    /\ IF Decodable(disk[go_file].bytes)
       THEN code' = ReadText(disk[go_file].bytes) /\ raised' = FALSE
       ELSE code' = code /\ raised' = TRUE
    /\ pc' = "Close"
    /\ UNCHANGED <<env, output, i, doc, styles, openFiles, console,
                   saves, visited, run, prev>>

\* End of the with block: the file is closed, then a pending exception
\* propagates out of generate_document.
CloseLeak ==
    /\ pc = "Close"
    /\ pc' = IF raised THEN "Aborted" ELSE "Format"
    /\ UNCHANGED <<env, output, i, doc, styles, code, openFiles, raised, console,
                   saves, visited, run, prev>>

CloseAndFlush ==
    /\ pc = "Close"
    /\ openFiles' = openFiles \ {go_file}
    /\ pc' = IF raised THEN "Aborted" ELSE "Format"
    /\ IF raised /\ outWritable
       THEN /\ output' = [exists |-> TRUE, body |-> doc, styles |-> styles]
            /\ saves' = saves + 1
       ELSE UNCHANGED <<output, saves>>
    /\ UNCHANGED <<env, i, doc, styles, code, raised, console, visited, run, prev>>

Close ==
    /\ pc = "Close"
    /\ openFiles' = openFiles \ {go_file}
    /\ pc' = IF raised THEN "Aborted" ELSE "Format"
    /\ UNCHANGED <<env, output, i, doc, styles, code, raised, console,
                   saves, visited, run, prev>>

\* Line 73, then back to the head of the loop.
Format ==
    /\ pc = "Format"
    /\ doc' = add_code_paragraph(doc, code)
    /\ styles' = StylesAfter(styles)
    /\ Advance(i)
    /\ UNCHANGED <<env, output, code, openFiles, raised, console, saves, run, prev>>

\* Line 76: the document replaces the output file, or save raises because
\* the output path cannot be opened for writing.
Save ==
    /\ pc = "Save"
    /\ IF outWritable
       THEN /\ output' = [exists |-> TRUE, body |-> doc, styles |-> styles]
            /\ saves' = saves + 1
            /\ pc' = "Confirm"
       ELSE /\ UNCHANGED <<output, saves>>
            /\ pc' = "Aborted"
    /\ UNCHANGED <<env, i, doc, styles, code, openFiles, raised, console,
                   visited, run, prev>>

\* Line 77.
Confirm ==
    /\ pc = "Confirm"
    /\ console' = Append(console, Confirmation)
    /\ pc' = "Done"
    /\ UNCHANGED <<env, output, i, doc, styles, code, openFiles, raised,
                   saves, visited, run, prev>>

\* Lines 79-80: the script is invoked again; nothing of the old process
\* survives but the files on disk.
Rerun ==
    /\ pc \in {"Done", "Aborted"}
    /\ run < MaxRuns
    /\ run' = run + 1
    /\ prev' = [pc |-> pc, doc |-> doc, console |-> console, output |-> output]
    /\ pc' = "Start"
    /\ i' = 0
    /\ doc' = <<>>
    /\ styles' = <<>>
    /\ code' = <<>>
    /\ openFiles' = {}
    /\ raised' = FALSE
    /\ console' = <<>>
    /\ saves' = 0
    /\ visited' = <<>>
    /\ UNCHANGED <<env, output>>

\* One statement of the running invocation.
Step ==
    \/ Start
    \/ Skip
    \/ Check
    \/ Separate
    \/ Heading
    \/ Open
    \/ OpenFail
    \/ Read
    \/ Close
    \/ Format
    \/ Save
    \/ Confirm

Next == Step \/ Rerun

Spec == Init /\ [][Next]_vars

\* A started invocation runs to its end: the script is sequential and never
\* waits on anything.
FairSpec == Init /\ [][Next]_vars /\ WF_vars(Step)

\* ------------------------------------------------------- derived quantities
N == Len(GO_FILES)

IsH1(p) == p.kind = "heading" /\ p.level = 1

IsCode(p) == p.kind = "code"

IsBreak(p) == p.kind = "pagebreak"

PageBreaks(d) == Len(SelectSeq(d, IsBreak))

CodeBlocks(d) == Len(SelectSeq(d, IsCode))

\* Texts of the level-1 headings of a body, in document order.
Level1Headings(d) ==
    LET h == SelectSeq(d, IsH1) IN [k \in 1..Len(h) |-> h[k].text]

\* The file named f exists on disk.
OnDisk(f) == disk[f].state # "missing"

\* The names of the list that exist on disk, in list order.
ExistingFiles == SelectSeq(GO_FILES, OnDisk)

\* Entries up to k that exist on disk.
ExistingUpTo(k) == Cardinality({j \in 1..N : j <= k /\ OnDisk(GO_FILES[j])})

IsConfirmation(m) == m.kind = "saved"

Confirmations == Len(SelectSeq(console, IsConfirmation))

WarningsFor(f) ==
    Cardinality({k \in 1..Len(console) : console[k] = Warning(f)})

CodeStyles(s) == Cardinality({k \in 1..Len(s) : s[k] = "Code"})

AllMissing == \A f \in Files : ~OnDisk(f)

\* No input can make open or read fail and the output can be written.
NoFatal ==
    /\ outWritable
    /\ \A f \in Files : OnDisk(f) => CanOpen(disk, f) /\ Decodable(disk[f].bytes)

LoopOver == pc \in {"Save", "Confirm", "Done"}

Ended == pc \in {"Done", "Aborted"}

TitleOnly == <<HeadingPar(TITLE, 0)>>

\* The bytes on disk of the file a level-1 heading names.
BytesOf(name) == disk[name].bytes

\* ------------------------------------------------------------------ claims

\* C1 (as stated): when the save step is reached the number of page breaks
\* equals the number of processed files minus one, and is zero when zero or
\* one files were processed; no page break precedes the first processed file.
C1_BreaksOneLessThanFiles ==
    pc = "Save" =>
        /\ PageBreaks(doc) =
              IF CodeBlocks(doc) = 0 THEN 0 ELSE CodeBlocks(doc) - 1
        /\ \A k \in 1..Len(doc) :
              IsBreak(doc[k]) => \E j \in 1..(k - 1) : IsCode(doc[j])

\* C2: the saved document holds exactly one level-1 heading for each name of
\* the list that exists on disk, in list order, and no other level-1 heading.
C2_HeadingsInListOrder ==
    saves = 1 => Level1Headings(output.body) = ExistingFiles

C2_Witness ==
    /\ saves = 1
    /\ Len(ExistingFiles) >= 2
    /\ \E f \in Files : ~OnDisk(f)
    /\ ~OnDisk(GO_FILES[1])

\* C3: a missing entry gets exactly one warning once the loop has passed it
\* and none before, nothing in the document belongs to it (the level-1
\* headings, code blocks and page breaks are no more than the existing
\* entries reached so far), and the run never stops on a missing entry.
C3_MissingSkippedWithWarning ==
    /\ \A k \in 1..N :
          ~OnDisk(GO_FILES[k]) =>
              /\ WarningsFor(GO_FILES[k]) = (IF k < i THEN 1 ELSE 0)
              /\ \A j \in 1..Len(doc) : doc[j].text # GO_FILES[k]
              /\ (pc = "Aborted" => i # k)
              /\ (pc \notin {"Start", "Check", "Aborted"} => i # k)
    /\ Len(SelectSeq(doc, IsH1)) <= ExistingUpTo(i)
    /\ CodeBlocks(doc) <= ExistingUpTo(i)
    /\ PageBreaks(doc) <= ExistingUpTo(i)
    /\ Len(doc) <= 1 + 3 * ExistingUpTo(i)
    /\ Len(console) <= N + 1

C3_Witness ==
    /\ pc = "Done"
    /\ ~OnDisk(GO_FILES[2])
    /\ OnDisk(GO_FILES[1])
    /\ OnDisk(GO_FILES[3])
    /\ WarningsFor(GO_FILES[2]) = 1

\* C4: an invocation writes the output file at most once and only after the
\* loop has visited every entry; an aborted invocation has written nothing
\* (the output file is as the previous invocation left it) and has printed
\* no confirmation.
C4_SaveOnceAtEnd ==
    /\ saves <= 1
    /\ (saves = 1 => i > N /\ visited = [k \in 1..N |-> k])
    /\ (i <= N => output = prev.output)
    /\ (pc = "Aborted" => saves = 0 /\ Confirmations = 0)
    /\ (i <= N => saves = 0 /\ Confirmations = 0)

C4_Witness ==
    /\ pc = "Aborted"
    /\ i <= N
    /\ CodeBlocks(doc) >= 1
    /\ saves = 0
    /\ ~output.exists

\* C5: the document never holds more than one 'Code' style: none while no
\* code block was added, exactly one afterwards, however many were added.
C5_CodeStyleOnce ==
    /\ CodeStyles(styles) <= 1
    /\ (CodeBlocks(doc) = 0 => CodeStyles(styles) = 0)
    /\ (CodeBlocks(doc) > 0 => CodeStyles(styles) = 1)
    /\ CodeStyles(output.styles) <= 1

C5_Witness ==
    /\ CodeBlocks(doc) >= 3
    /\ CodeStyles(styles) = 1

\* C6: when every file is missing the loop ends with a document that holds
\* only the title, the run is not aborted inside the loop, the saved file
\* holds only the title, and (the output being writable) the run reaches
\* Done with that file saved.
C6_AllMissingTitleOnly ==
    /\ [](AllMissing =>
            /\ (i > N => doc = TitleOnly)
            /\ (pc = "Aborted" => i > N /\ ~outWritable)
            /\ (pc = "Done" => saves = 1 /\ output.body = TitleOnly))
    /\ ((AllMissing /\ outWritable /\ pc = "Start")
            ~> (pc = "Done" /\ output.exists /\ output.body = TitleOnly))

C6_Witness ==
    /\ AllMissing
    /\ pc = "Done"
    /\ output.body = TitleOnly
    /\ Len(console) = N + 1

\* C7: an invocation on the same input files ends as the previous one did:
\* same document, same console lines, same outcome, and the output file it
\* wrote (newly written, replacing the old one) has the same content.
C7_RerunSameOutput ==
    (run >= 2 /\ Ended) =>
        /\ pc = prev.pc
        /\ doc = prev.doc
        /\ console = prev.console
        /\ output = prev.output
        /\ (pc = "Done" => saves = 1)

C7_Witness ==
    /\ run = 2
    /\ pc = "Done"
    /\ CodeBlocks(doc) >= 2
    /\ prev.output.exists

\* Layout of a saved body: each level-1 heading is directly followed by one
\* code block, and a code block that is not last is followed by exactly one
\* page break and then the next level-1 heading.
SavedLayout(b) ==
    /\ \A k \in 1..Len(b) :
          IsH1(b[k]) =>
              /\ k < Len(b)
              /\ IsCode(b[k + 1])
              /\ (k + 2 <= Len(b) => ~IsCode(b[k + 2]))
    /\ \A k \in 1..Len(b) :
          (IsCode(b[k]) /\ k < Len(b)) =>
              /\ k + 2 <= Len(b)
              /\ IsBreak(b[k + 1])
              /\ IsH1(b[k + 2])
    /\ \A k \in 1..Len(b) : IsCode(b[k]) => k > 1 /\ IsH1(b[k - 1])

NotLF(c) == c # "LF"

NotEOL(c) == c \notin {"CR", "LF"}

\* C8 (as stated): in the saved document each level-1 heading is directly
\* followed by one code block holding the file's text unchanged, and exactly
\* one page break lies between a code block and the next heading.
C8_CodeBlockHoldsFileUnchanged ==
    saves = 1 =>
        /\ SavedLayout(output.body)
        /\ \A k \in 1..Len(output.body) :
              IsH1(output.body[k]) =>
                  output.body[k + 1].code = BytesOf(output.body[k].text)

\* C8 (amended): as above, but the code block holds the file's decoded text
\* with line endings normalised: it contains no carriage return, its
\* characters other than line ends are those of the file in order, it has
\* as many characters as the file less one per CR LF pair, and it is the
\* file's text unchanged when the file holds no carriage return.
C8_CodeBlockHoldsNormalisedText ==
    saves = 1 =>
        /\ SavedLayout(output.body)
        /\ \A k \in 1..Len(output.body) :
              IsH1(output.body[k]) =>
                  LET t == output.body[k + 1].code
                      b == BytesOf(output.body[k].text)
                      crlf == {j \in 1..(Len(b) - 1) :
                                  b[j] = "CR" /\ b[j + 1] = "LF"}
                  IN  /\ \A j \in 1..Len(t) : t[j] # "CR"
                      /\ SelectSeq(t, NotLF) = SelectSeq(b, NotEOL)
                      /\ Len(t) = Len(b) - Cardinality(crlf)
                      /\ ((\A j \in 1..Len(b) : b[j] # "CR") => t = b)
                      /\ output.body[k + 1].style = "Code"

C8_Witness ==
    /\ saves = 1
    /\ CodeBlocks(output.body) >= 2
    /\ PageBreaks(output.body) >= 2
    /\ \E k \in 1..Len(output.body) :
          /\ IsCode(output.body[k])
          /\ output.body[k].code = <<"p", "LF", "q">>
          /\ BytesOf(output.body[k - 1].text) = <<"p", "CR", "LF", "q">>
    /\ \E k \in 1..Len(output.body) :
          IsCode(output.body[k]) /\ output.body[k].code = <<>>

\* C9: the loop visits the entries once each in list order (never going
\* back), the confirmation is printed only after the save and at most once,
\* a run that is Done has visited every entry, saved once and confirmed
\* once, and a run that meets no fatal error reaches Done.
C9_LinearRunToDone ==
    /\ [](/\ visited = [k \in 1..Len(visited) |-> k]
          /\ Len(visited) <= N
          /\ Confirmations <= saves
          /\ Confirmations <= 1
          /\ (pc = "Done" =>
                 /\ visited = [k \in 1..N |-> k]
                 /\ saves = 1
                 /\ Confirmations = 1
                 /\ console[Len(console)] = Confirmation))
    /\ [][(i' # i /\ pc' # "Start") => i' = i + 1]_vars
    /\ ((pc = "Start" /\ NoFatal) ~> pc = "Done")

C9_Witness ==
    /\ pc = "Done"
    /\ NoFatal
    /\ run = 2
    /\ \E f \in Files : ~OnDisk(f)
    /\ \E f \in Files : OnDisk(f)

\* C10: at most one input file is open at any time, none is open outside the
\* with block (so none while the code block is appended, while the next
\* entry is checked, or after the run aborted), and the open file is the
\* current entry.
C10_InputClosedAfterRead ==
    /\ Cardinality(openFiles) <= 1
    /\ (pc \notin {"Read", "Close"} => openFiles = {})
    /\ (pc \in {"Read", "Close"} => openFiles = {GO_FILES[i]})

C10_Witness ==
    /\ pc = "Aborted"
    /\ raised
    /\ openFiles = {}
    /\ CodeBlocks(doc) >= 1

====
